---- MODULE Spec2Model ----
(***************************************************************************)
(* Model of the user/session backend (Express + Mongoose):                  *)
(* controllers/user.controller.js and the User collection it works on.     *)
(*                                                                         *)
(* Every request is a process held in a slot of `req`.  One action is one   *)
(* stretch of a handler between two `await`s: the store operation that the  *)
(* await waits for together with the synchronous code that follows it.      *)
(* Requests in different slots interleave at these points, as on the        *)
(* Node.js event loop.  `resp` is the response sent by the last step.       *)
(***************************************************************************)
EXTENDS Integers, Sequences, FiniteSets, TLC

\* ------------------------------------------------------------- bounds
MaxReqs == 2        \* requests that can be in flight at once
MaxGrants == 2      \* token pairs that can be signed in one behaviour
MaxTime == 1        \* last instant of the clock
AccessTTL == 1      \* ACCESS_TOKEN_EXPIRY, in clock instants
RefreshTTL == 1     \* REFRESH_TOKEN_EXPIRY, in clock instants
MaxUsers == 3       \* documents the User collection can hold
MaxSubs == 2        \* rows the Subscription collection can hold
MaxHistory == 2     \* entries a user's watchHistory can hold

Reqs == 1..MaxReqs
Ids == 1..MaxUsers

VARIABLES
    users,       \* the User collection: _id -> document
    req,         \* request slots: the handler's position and locals
    resp,        \* the response sent by the last step ([kind |-> "none"] if none)
    issued,      \* token pairs that clients have received
    serial,      \* number of token pairs signed so far
    now,         \* the clock jwt.sign / jwt.verify read
    rotatedOut,  \* history: stored refresh tokens replaced by a refresh
    loggedOver,  \* history: stored refresh tokens replaced by a login
    subscriptions, \* the Subscription collection: a sequence of rows
    videos       \* the Video collection: _id -> document

vars == <<users, req, resp, issued, serial, now, rotatedOut, loggedOver,
          subscriptions, videos>>

\* ------------------------------------------------------------- strings
\* A string is a sequence of one-character strings; Missing is `undefined`.
Missing == <<"#undefined">>

LowerChar(c) ==
    CASE c = "A" -> "a"
      [] c = "B" -> "b"
      [] c = "X" -> "x"
      [] OTHER -> c

toLowerCase(s) == [i \in DOMAIN s |-> LowerChar(s[i])]

includes(s, c) == \E i \in DOMAIN s : s[i] = c

RECURSIVE trimStart(_)
trimStart(s) ==
    IF s # <<>> /\ Head(s) = " " THEN trimStart(Tail(s)) ELSE s

RECURSIVE trimEnd(_)
trimEnd(s) ==
    IF s # <<>> /\ s[Len(s)] = " " THEN trimEnd(SubSeq(s, 1, Len(s) - 1)) ELSE s

trim(s) == trimEnd(trimStart(s))

\* JavaScript truthiness of an optional string
Truthy(s) == s # Missing /\ s # <<>>

\* ------------------------------------------------------------- tokens
NoToken == [kind |-> "none", sub |-> 0, ser |-> 0, exp |-> 0, sig |-> "none"]

\* user.generateRefreshToken(): a token for the subject, signed with
\* REFRESH_TOKEN_SECRET, expiring RefreshTTL after it was signed.
generateRefreshToken(uid, ser, t) ==
    [kind |-> "refresh", sub |-> uid, ser |-> ser, exp |-> t + RefreshTTL, sig |-> "ok"]

\* user.generateAccessToken(): signed with ACCESS_TOKEN_SECRET.
generateAccessToken(uid, ser, t) ==
    [kind |-> "access", sub |-> uid, ser |-> ser, exp |-> t + AccessTTL, sig |-> "ok"]

\* a token whose signature does not verify under any secret of the server
Forged(tok) == [tok EXCEPT !.sig = "bad"]

\* jwt.verify(token, secret): "ok", or the error it throws
jwtVerify(tok, secretKind, t) ==
    IF tok.sig # "ok" \/ tok.kind # secretKind THEN "invalid signature"
    ELSE IF t >= tok.exp THEN "jwt expired"
    ELSE "ok"

\* ------------------------------------------------------------- passwords
\* bcrypt.hash in the pre-save hook, bcrypt.compare in isPasswordCorrect
bcryptHash(p) == <<"$2b$", p>>

isPasswordCorrect(hash, p) == hash = bcryptHash(p)

\* ------------------------------------------------------------- User collection
\* Schema setters, which Mongoose applies to written values and to query
\* filters alike: username has none, email is lowercased and trimmed.
castUsername(s) == s

castEmail(s) == IF s = Missing THEN s ELSE toLowerCase(trim(s))

\* variant of findOneMatches: both conditions are required ($and for $or)
findOneMatches_and(us, username, email) ==
    {u \in DOMAIN us :
        /\ username # Missing /\ us[u].username = castUsername(username)
        /\ email # Missing /\ us[u].email = castEmail(email)}

\* User.findOne({ $or: [{ username }, { email }] }): the documents that match.
\* An undefined value is sent as null and matches no document.
findOneMatches(us, username, email) ==
    {u \in DOMAIN us :
        \/ username # Missing /\ us[u].username = castUsername(username)
        \/ email # Missing /\ us[u].email = castEmail(email)}

\* variant of unsetRefreshToken: logout clears the cookies only
unsetRefreshToken_noop(us, uid) == us

\* logoutUser's findByIdAndUpdate(id, { $unset: { refreshToken: 1 } })
unsetRefreshToken(us, uid) ==
    IF uid \in DOMAIN us THEN [us EXCEPT ![uid].refreshToken = NoToken] ELSE us

\* variants of saveRefreshToken: the token is assigned but never persisted;
\* the token is persisted only when none is stored yet; the pre-save hook
\* hashes the password on every save, modified or not
saveRefreshToken_dropped(us, uid, tok) == us

saveRefreshToken_keep(us, uid, tok) ==
    IF us[uid].refreshToken = NoToken THEN [us EXCEPT ![uid].refreshToken = tok] ELSE us

saveRefreshToken_rehash(us, uid, tok) ==
    [us EXCEPT ![uid].refreshToken = tok, ![uid].password = bcryptHash(@)]

\* user.refreshToken = refreshToken; user.save({ validateBeforeSave: false }):
\* only the modified path is written, and the pre-save hook leaves the
\* password alone because it was not modified.
saveRefreshToken(us, uid, tok) == [us EXCEPT ![uid].refreshToken = tok]

\* variant of sanitized: the select is left out
sanitized_all(doc) == doc

\* .select("-password -refreshToken")
sanitized(doc) == [f \in (DOMAIN doc) \ {"password", "refreshToken"} |-> doc[f]]

\* ------------------------------------------------------------- input domains
Usernames == {<<"a", "l">>, <<"A", "l">>, <<"b", "o">>}
Emails == {<<"a", "@", "x">>, <<"A", "@", "x">>, <<"b", "@", "x">>}
Passwords == {<<"p", "1">>, <<"p", "2">>}
FullNames == {<<"A", "l", " ", "B">>}

\* a username with either password, or an email, or neither
LoginInputs ==
    [username : {<<"a", "l">>, <<"A", "l">>}, email : {Missing}, password : Passwords]
    \cup [username : {Missing}, email : {<<"A", "@", "x">>, Missing}, password : {<<"p", "1">>}]

\* what a client can put in the refreshToken cookie or body field: a refresh
\* token it received, that token with a broken signature, an access token it
\* received, or nothing
RefreshInputs ==
    {NoToken}
    \cup {generateRefreshToken(g.sub, g.ser, g.iat) : g \in issued}
    \cup {Forged(generateRefreshToken(g.sub, g.ser, g.iat)) : g \in issued}
    \cup {generateAccessToken(g.sub, g.ser, g.iat) : g \in issued}

\* ------------------------------------------------------------- requests
Idle == [kind |-> "idle", pc |-> "idle"]
NoGrant == [sub |-> 0, ser |-> 0, iat |-> 0]
NoResp == [kind |-> "none"]

Busy(r) == req[r].pc # "idle"

\* requests enter the lowest free slot (slots are interchangeable)
Free(r) == ~Busy(r) /\ \A r2 \in 1..(r - 1) : Busy(r2)

\* requests that will still sign a token pair
WillSign(r) ==
    /\ Busy(r)
    /\ req[r].kind \in {"login", "refresh"}
    /\ req[r].pc \in {"findOne", "compare", "findById", "gen_findById"}

CanReserveGrant == serial + Cardinality({r \in Reqs : WillSign(r)}) < MaxGrants

\* A request enters slot r.  On a login, overlap records whether another
\* request that concerns the same user was in flight at any time during it.
Begin(r, rec) ==
    req' = [r2 \in Reqs |->
              IF r2 = r
              THEN [rec EXCEPT !.overlap =
                       /\ rec.kind = "login"
                       /\ \E r3 \in Reqs \ {r} :
                             Busy(r3) /\ req[r3].tgt \cap rec.tgt # {}]
              ELSE IF Busy(r2) /\ req[r2].kind = "login"
                      /\ req[r2].tgt \cap rec.tgt # {}
                   THEN [req[r2] EXCEPT !.overlap = TRUE]
                   ELSE req[r2]]

Step(r, rec) == req' = [req EXCEPT ![r] = rec]

Respond(r, response) ==
    /\ resp' = response
    /\ req' = [req EXCEPT ![r] = Idle]

\* ------------------------------------------------------------- loginUser
\* lines 184-195: read the body, reject a request without identifier, then
\* dispatch User.findOne.
loginUser_start(r) ==
    /\ Free(r)
    /\ CanReserveGrant
    /\ \E in \in LoginInputs :
         IF ~Truthy(in.username) /\ ~Truthy(in.email)
         THEN /\ resp' = [kind |-> "login", status |-> 400, in |-> in, hash |-> <<>>,
                          found |-> FALSE, pwValid |-> FALSE, overlap |-> FALSE,
                          uid |-> 0, accessToken |-> NoToken, refreshToken |-> NoToken,
                          signed |-> FALSE]
              /\ UNCHANGED req
         ELSE /\ Begin(r, [kind |-> "login", pc |-> "findOne", in |-> in,
                           tgt |-> findOneMatches(users, in.username, in.email),
                           overlap |-> FALSE, uid |-> 0, hash |-> <<>>,
                           found |-> FALSE, pwValid |-> FALSE,
                           grant |-> NoGrant])
              /\ resp' = NoResp
    /\ UNCHANGED <<users, issued, serial, now, subscriptions, videos, rotatedOut, loggedOver>>

\* the locals of loginUser once they are no longer read
NoLogin == [username |-> Missing, email |-> Missing, password |-> <<>>]

LoginResponse(q, status) ==
    [kind |-> "login", status |-> status, in |-> q.in, hash |-> q.hash,
     found |-> q.found, pwValid |-> q.pwValid, overlap |-> q.overlap, uid |-> q.uid,
     accessToken |-> NoToken, refreshToken |-> NoToken, signed |-> q.grant # NoGrant]

\* lines 193-202: findOne resolves; 404 if nobody matches, otherwise the
\* loaded document is handed to isPasswordCorrect.
loginUser_findOne(r) ==
    /\ Busy(r) /\ req[r].kind = "login" /\ req[r].pc = "findOne"
    /\ LET q == req[r]
           m == findOneMatches(users, q.in.username, q.in.email)
       IN IF m = {}
          THEN Respond(r, LoginResponse(q, 404))
          ELSE /\ \E u \in m :
                    Step(r, [q EXCEPT !.pc = "compare", !.uid = u, !.found = TRUE,
                                      !.hash = users[u].password,
                                      !.in = [q.in EXCEPT !.username = Missing,
                                                          !.email = Missing]])
               /\ resp' = NoResp
    /\ UNCHANGED <<users, issued, serial, now, subscriptions, videos, rotatedOut, loggedOver>>

\* lines 202-210: bcrypt.compare resolves; 401 on a wrong password, otherwise
\* generateAccessAndRefreshToken is entered.
loginUser_compare(r) ==
    /\ Busy(r) /\ req[r].kind = "login" /\ req[r].pc = "compare"
    /\ LET q == req[r]
           isPasswordValid == isPasswordCorrect(q.hash, q.in.password)
       IN IF ~isPasswordValid
          THEN Respond(r, LoginResponse(q, 401))
          ELSE /\ Step(r, [q EXCEPT !.pc = "gen_findById", !.pwValid = TRUE,
                                    !.hash = <<>>, !.in = NoLogin])
               /\ resp' = NoResp
    /\ UNCHANGED <<users, issued, serial, now, subscriptions, videos, rotatedOut, loggedOver>>

\* lines 212-243: the sanitized user is read and the response is sent with
\* both tokens in cookies and body.
loginUser_respond(r) ==
    /\ Busy(r) /\ req[r].kind = "login" /\ req[r].pc = "respond"
    /\ LET q == req[r]
           g == q.grant
       IN /\ Respond(r, [LoginResponse(q, 200) EXCEPT
                            !.accessToken = generateAccessToken(g.sub, g.ser, g.iat),
                            !.refreshToken = generateRefreshToken(g.sub, g.ser, g.iat)])
          /\ issued' = issued \cup {g}
    /\ UNCHANGED <<users, serial, now, subscriptions, videos, rotatedOut, loggedOver>>

\* ------------------------------------------------------------- generateAccessAndRefreshToken
\* what a failure inside the helper becomes for the caller: the helper's catch
\* rethrows ApiError(500, message), and refreshAccessToken's catch does it again
\* variant of refreshCatch: an error that has a status code is rethrown as it is
refreshCatch_rethrow(thrown) == IF thrown = 0 THEN 500 ELSE thrown

\* the catch of refreshAccessToken (lines 357-362): whatever was thrown in the
\* try, with status code `thrown` (0 for an error that has none), is replaced
\* by ApiError(500, error.message)
refreshCatch(thrown) == 500

GenFailure(q, message) ==
    IF q.kind = "login"
    THEN LoginResponse(q, 500)
    ELSE [kind |-> "refresh", status |-> refreshCatch(500), thrown |-> 500,
          message |-> message,
          tok |-> q.tok, verified |-> TRUE, passed |-> TRUE,
          staleRot |-> q.staleRot, staleLogin |-> q.staleLogin,
          absent |-> q.absent, lateWin |-> FALSE,
          storedBefore |-> IF q.uid \in DOMAIN users
                           THEN users[q.uid].refreshToken ELSE NoToken,
          accessToken |-> NoToken, refreshToken |-> NoToken]

\* lines 137-152: findById resolves, both tokens are signed and the refresh
\* token is assigned to the loaded document.
generateAccessAndRefreshToken_findById(r) ==
    /\ Busy(r) /\ req[r].pc = "gen_findById"
    /\ LET q == req[r]
       IN IF q.uid \notin DOMAIN users
          THEN /\ Respond(r, GenFailure(q, "User not found"))
               /\ UNCHANGED serial
          ELSE /\ serial' = serial + 1
               /\ Step(r, [q EXCEPT !.pc = "gen_save",
                                    !.grant = [sub |-> q.uid, ser |-> serial + 1,
                                               iat |-> now]])
               /\ resp' = NoResp
    /\ UNCHANGED <<users, issued, now, subscriptions, videos, rotatedOut, loggedOver>>

\* variant of generateAccessAndRefreshToken_save: on a refresh the save is
\* conditional on the stored token still being the presented one
generateAccessAndRefreshToken_save_cas(r) ==
    /\ Busy(r) /\ req[r].pc = "gen_save"
    /\ LET q == req[r]
           g == q.grant
           refreshToken == generateRefreshToken(g.sub, g.ser, g.iat)
       IN IF q.kind = "refresh" /\ users[q.uid].refreshToken # q.tok
          THEN /\ Respond(r, GenFailure(q, "No document found"))
               /\ UNCHANGED <<users, issued, rotatedOut, loggedOver>>
          ELSE /\ users' = saveRefreshToken(users, q.uid, refreshToken)
               /\ IF q.kind = "login"
                  THEN /\ Step(r, [q EXCEPT !.pc = "respond"])
                       /\ resp' = NoResp
                       /\ UNCHANGED issued
                  ELSE /\ Respond(r, [GenFailure(q, "") EXCEPT
                                        !.status = 200, !.thrown = 0,
                                        !.refreshToken = refreshToken])
                       /\ issued' = issued \cup {g}
               /\ UNCHANGED <<rotatedOut, loggedOver>>
    /\ UNCHANGED <<serial, now, subscriptions, videos>>

\* lines 158-160: save resolves and the pair is returned.  In loginUser
\* another await follows; refreshAccessToken responds at once (lines 342-356).
generateAccessAndRefreshToken_save(r) ==
    /\ Busy(r) /\ req[r].pc = "gen_save"
    /\ LET q == req[r]
           g == q.grant
           refreshToken == generateRefreshToken(g.sub, g.ser, g.iat)
           old == IF q.uid \in DOMAIN users THEN users[q.uid].refreshToken ELSE NoToken
           replaced == IF old = NoToken \/ old = refreshToken THEN {} ELSE {old}
       IN IF q.uid \notin DOMAIN users
          THEN /\ Respond(r, GenFailure(q, "No document found"))
               /\ UNCHANGED <<users, issued, rotatedOut, loggedOver>>
          ELSE /\ users' = saveRefreshToken(users, q.uid, refreshToken)
               /\ IF q.kind = "login"
                  THEN /\ Step(r, [q EXCEPT !.pc = "respond"])
                       /\ resp' = NoResp
                       /\ loggedOver' = loggedOver \cup replaced
                       /\ UNCHANGED <<issued, rotatedOut>>
                  ELSE /\ Respond(r, [GenFailure(q, "") EXCEPT
                                        !.status = 200, !.thrown = 0,
                                        !.lateWin = (q.tok \in rotatedOut),
                                        !.accessToken =
                                            generateAccessToken(g.sub, g.ser, g.iat),
                                        !.refreshToken = refreshToken])
                       /\ issued' = issued \cup {g}
                       /\ rotatedOut' = rotatedOut \cup replaced
                       /\ UNCHANGED loggedOver
    /\ UNCHANGED <<serial, now, subscriptions, videos>>

\* ------------------------------------------------------------- refreshAccessToken
\* variants of refreshCheck: the comparison with the stored token is left
\* out; only the presence of a stored token is checked
refreshCheck_nocompare(us, tok) ==
    IF tok.sub \notin DOMAIN us THEN "User not found" ELSE "ok"

refreshCheck_presence(us, tok) ==
    IF tok.sub \notin DOMAIN us THEN "User not found"
    ELSE IF us[tok.sub].refreshToken = NoToken THEN "Refresh token is expired or invalid"
    ELSE "ok"

\* lines 324-338: what the lookup of the token's subject and the comparison
\* with the stored token decide
refreshCheck(us, tok) ==
    IF tok.sub \notin DOMAIN us THEN "User not found"
    ELSE IF us[tok.sub].refreshToken # tok THEN "Refresh token is expired or invalid"
    ELSE "ok"

RefreshFailure(tok, status, thrown, message, verified) ==
    [kind |-> "refresh", status |-> status, thrown |-> thrown, message |-> message,
     tok |-> tok, verified |-> verified, passed |-> FALSE,
     staleRot |-> tok \in rotatedOut, staleLogin |-> tok \in loggedOver,
     absent |-> (tok.sub \in DOMAIN users /\ users[tok.sub].refreshToken = NoToken),
     storedBefore |-> IF tok.sub \in DOMAIN users
                      THEN users[tok.sub].refreshToken ELSE NoToken,
     lateWin |-> FALSE, accessToken |-> NoToken, refreshToken |-> NoToken]

\* req.cookies.refreshToken || req.body.refreshToken (lines 304-305)
incomingRefreshToken(cookie, body) == IF cookie # NoToken THEN cookie ELSE body

\* where a client puts its token: in the cookie, in the body, or in both
Carriers == {"cookie", "body", "both"}

\* variant of refreshAccessToken_start: the check for a missing token is left
\* out, and jwt.verify is the first to see that there is none
refreshAccessToken_start_nocheck(r) ==
    /\ Free(r)
    /\ CanReserveGrant
    /\ \E token \in RefreshInputs, carrier \in Carriers :
         LET tok == incomingRefreshToken(IF carrier = "body" THEN NoToken ELSE token,
                                         IF carrier = "cookie" THEN NoToken ELSE token)
             v == jwtVerify(tok, "refresh", now)
         IN IF v # "ok"
            THEN /\ resp' = RefreshFailure(tok, refreshCatch(0), 0, v, FALSE)
                 /\ UNCHANGED req
            ELSE /\ Begin(r, [kind |-> "refresh", pc |-> "findById", tok |-> tok,
                              tgt |-> {tok.sub}, overlap |-> FALSE, uid |-> 0,
                              staleRot |-> FALSE, staleLogin |-> FALSE,
                              absent |-> FALSE,
                              grant |-> NoGrant])
                 /\ resp' = NoResp
    /\ UNCHANGED <<users, issued, serial, now, subscriptions, videos, rotatedOut, loggedOver>>

\* lines 302-324: 401 without a token; jwt.verify inside the try, whose catch
\* turns every error into ApiError(500, error.message); then findById is
\* dispatched.
refreshAccessToken_start(r) ==
    /\ Free(r)
    /\ CanReserveGrant
    /\ \E token \in RefreshInputs, carrier \in Carriers :
         LET tok == incomingRefreshToken(IF carrier = "body" THEN NoToken ELSE token,
                                         IF carrier = "cookie" THEN NoToken ELSE token)
             v == jwtVerify(tok, "refresh", now)
         IN IF tok = NoToken
            THEN /\ resp' = RefreshFailure(tok, 401, 401, "Unauthorized access", FALSE)
                 /\ UNCHANGED req
            ELSE IF v # "ok"
            THEN /\ resp' = RefreshFailure(tok, refreshCatch(0), 0, v, FALSE)
                 /\ UNCHANGED req
            ELSE /\ Begin(r, [kind |-> "refresh", pc |-> "findById", tok |-> tok,
                              tgt |-> {tok.sub}, overlap |-> FALSE, uid |-> 0,
                              staleRot |-> FALSE, staleLogin |-> FALSE,
                              absent |-> FALSE,
                              grant |-> NoGrant])
                 /\ resp' = NoResp
    /\ UNCHANGED <<users, issued, serial, now, subscriptions, videos, rotatedOut, loggedOver>>

\* variant of refreshAccessToken_findById: a refused refresh also removes the
\* stored token
refreshAccessToken_findById_revoke(r) ==
    /\ Busy(r) /\ req[r].kind = "refresh" /\ req[r].pc = "findById"
    /\ LET q == req[r]
           failure(message) == RefreshFailure(q.tok, refreshCatch(401), 401, message, TRUE)
           c == refreshCheck(users, q.tok)
       IN IF c # "ok"
          THEN /\ Respond(r, failure(c))
               /\ users' = unsetRefreshToken(users, q.tok.sub)
          ELSE /\ Step(r, [q EXCEPT !.pc = "gen_findById", !.uid = q.tok.sub,
                                    !.staleRot = q.tok \in rotatedOut,
                                    !.staleLogin = q.tok \in loggedOver,
                                    !.absent = (users[q.tok.sub].refreshToken = NoToken)])
               /\ resp' = NoResp
               /\ UNCHANGED users
    /\ UNCHANGED <<issued, serial, now, subscriptions, videos, rotatedOut, loggedOver>>

\* lines 324-343: findById resolves; ApiError(401) if the user is gone or the
\* stored token differs, both caught and rethrown as ApiError(500); otherwise
\* generateAccessAndRefreshToken is entered.
refreshAccessToken_findById(r) ==
    /\ Busy(r) /\ req[r].kind = "refresh" /\ req[r].pc = "findById"
    /\ LET q == req[r]
           failure(message) == RefreshFailure(q.tok, refreshCatch(401), 401, message, TRUE)
           c == refreshCheck(users, q.tok)
       IN IF c # "ok"
          THEN Respond(r, failure(c))
          ELSE /\ Step(r, [q EXCEPT !.pc = "gen_findById", !.uid = q.tok.sub,
                                    !.staleRot = q.tok \in rotatedOut,
                                    !.staleLogin = q.tok \in loggedOver,
                                    !.absent = (users[q.tok.sub].refreshToken = NoToken)])
               /\ resp' = NoResp
    /\ UNCHANGED <<users, issued, serial, now, subscriptions, videos, rotatedOut, loggedOver>>

\* ------------------------------------------------------------- logoutUser
\* the verifyJWT middleware in front of the protected routes: the access
\* token verifies and its subject still exists
verifyJWT(tok) ==
    /\ jwtVerify(tok, "access", now) = "ok"
    /\ tok.sub \in DOMAIN users

\* verifyJWT accepts the request, sets req.user and calls the handler, which
\* dispatches findByIdAndUpdate (lines 257-270).
logoutUser_start(r) ==
    /\ Free(r)
    /\ \E g \in issued :
         /\ verifyJWT(generateAccessToken(g.sub, g.ser, g.iat))
         /\ Begin(r, [kind |-> "logout", pc |-> "update", uid |-> g.sub,
                      tgt |-> {g.sub}, overlap |-> FALSE])
    /\ resp' = NoResp
    /\ UNCHANGED <<users, issued, serial, now, subscriptions, videos, rotatedOut, loggedOver>>

\* lines 260-284: the $unset is applied and the response clears both cookies.
logoutUser_update(r) ==
    /\ Busy(r) /\ req[r].kind = "logout" /\ req[r].pc = "update"
    /\ LET q == req[r]
       IN /\ users' = unsetRefreshToken(users, q.uid)
          /\ Respond(r, [kind |-> "logout", status |-> 200, uid |-> q.uid,
                         overlap |-> q.overlap,
                         before |-> IF q.uid \in DOMAIN users
                                    THEN users[q.uid].refreshToken ELSE NoToken])
    /\ UNCHANGED <<issued, serial, now, subscriptions, videos, rotatedOut, loggedOver>>

\* ------------------------------------------------------------- clock
Tick ==
    /\ now < MaxTime
    /\ now' = now + 1
    /\ resp' = NoResp
    /\ UNCHANGED <<users, req, issued, serial, rotatedOut, loggedOver, subscriptions, videos>>

\* ------------------------------------------------------------- session specification
NewUser(username, email, fullName, password, avatar, coverImage) ==
    [username |-> username, email |-> email, fullName |-> fullName,
     password |-> bcryptHash(password), avatar |-> avatar, coverImage |-> coverImage,
     watchHistory |-> <<>>, refreshToken |-> NoToken]

\* Two registered users.  The first has logged in once at instant 0 and holds
\* the token pair of that login; the second has never logged in.
FirstGrant == [sub |-> 1, ser |-> 0, iat |-> 0]

InitSession ==
    /\ users = (1 :> [NewUser(<<"a", "l">>, <<"a", "@", "x">>, <<"A", "l", " ", "B">>,
                              <<"p", "1">>, <<"u", "r", "l", "1">>, <<>>)
                      EXCEPT !.refreshToken = generateRefreshToken(1, 0, 0)]
                @@ 2 :> NewUser(<<"b", "o">>, <<"b", "@", "x">>, <<"A", "l", " ", "B">>,
                                <<"p", "2">>, <<"u", "r", "l", "1">>, <<"u", "r", "l", "2">>))
    /\ req = [r \in Reqs |-> Idle]
    /\ resp = NoResp
    /\ issued = {FirstGrant}
    /\ serial = 0
    /\ now = 0
    /\ rotatedOut = {}
    /\ loggedOver = {}
    /\ subscriptions = <<>>
    /\ videos = <<>>

NextSession ==
    \/ \E r \in Reqs : loginUser_start(r)
    \/ \E r \in Reqs : loginUser_findOne(r)
    \/ \E r \in Reqs : loginUser_compare(r)
    \/ \E r \in Reqs : loginUser_respond(r)
    \/ \E r \in Reqs : generateAccessAndRefreshToken_findById(r)
    \/ \E r \in Reqs : generateAccessAndRefreshToken_save(r)
    \/ \E r \in Reqs : refreshAccessToken_start(r)
    \/ \E r \in Reqs : refreshAccessToken_findById(r)
    \/ \E r \in Reqs : logoutUser_start(r)
    \/ \E r \in Reqs : logoutUser_update(r)
    \/ Tick

SpecSession == InitSession /\ [][NextSession]_vars

\* ------------------------------------------------------------- registerUser
\* the unique indexes on username and on email: a write that would give two
\* documents the same value is refused with a duplicate-key error (E11000)
duplicateKey_unindexed(us, id, username, email) == FALSE

duplicateKey(us, id, username, email) ==
    \E u \in (DOMAIN us) \ {id} : us[u].username = username \/ us[u].email = email

\* lines 40-45: some field is a string that is empty after trimming
\* (field?.trim() === "" is false for a field that is missing)
blankField(in) ==
    \E f \in {in.fullName, in.username, in.email, in.password} :
        f # Missing /\ trim(f) = <<>>

\* registrations that have not yet inserted their document
WillCreate(r) ==
    /\ Busy(r) /\ req[r].kind = "register"
    /\ req[r].pc \in {"findOne", "uploadAvatar", "uploadCover", "create"}

CanReserveUser ==
    Cardinality(DOMAIN users) + Cardinality({r \in Reqs : WillCreate(r)}) < MaxUsers

\* variant of uploadToCloudinary whose catch does not unlink the file
uploadToCloudinary_keep(localFilePath, outcome, url, staged) ==
    IF localFilePath = Missing
    THEN [response |-> Missing, staged |-> staged]
    ELSE IF outcome = "ok"
    THEN [response |-> url, staged |-> staged]
    ELSE [response |-> Missing, staged |-> staged]

\* uploadToCloudinary (lines 11-40 of the upload utility): null without a
\* path; the uploader's response (its url) when the upload succeeds; when the
\* uploader rejects, the catch unlinks the file and null is returned.  staged
\* is the set of files the upload middleware left on disk for the request;
\* null is modelled as Missing.
uploadToCloudinary(localFilePath, outcome, url, staged) ==
    IF localFilePath = Missing
    THEN [response |-> Missing, staged |-> staged]
    ELSE IF outcome = "ok"
    THEN [response |-> url, staged |-> staged]
    ELSE [response |-> Missing, staged |-> staged \ {localFilePath}]

\* failed: the files whose upload has failed (kept for the properties)
RegisterResponse(q, status, error) ==
    [kind |-> "register", status |-> status, error |-> error, in |-> q.in,
     held |-> q.held, taken |-> q.taken, uid |-> q.uid, user |-> Idle,
     staged |-> q.staged, failed |-> q.failed]

\* lines 32-50: the body is validated and User.findOne is dispatched.
registerUser_start(r, Inputs) ==
    /\ Free(r)
    /\ CanReserveUser
    /\ \E in \in Inputs :
         LET q == [kind |-> "register", pc |-> "findOne", in |-> in, tgt |-> {},
                   overlap |-> FALSE, held |-> FALSE, taken |-> FALSE, uid |-> 0,
                   avatar |-> Missing, coverImage |-> Missing,
                   staged |-> {in.avatarFile, in.coverFile} \ {Missing},
                   failed |-> {}]
         IN IF blankField(in)
            THEN /\ resp' = RegisterResponse(q, 400, "All fields are required")
                 /\ UNCHANGED req
            ELSE /\ Begin(r, q)
                 /\ resp' = NoResp
    /\ UNCHANGED <<users, issued, serial, now, subscriptions, videos, rotatedOut, loggedOver>>

\* what lines 86-101 do once the uploads are over: 500 without an avatar
\* upload; reading .url of a failed cover upload or calling toLowerCase on a
\* missing username throws a TypeError; otherwise User.create is dispatched.
registerUser_beforeCreate(r, q) ==
    IF q.avatar = Missing
    THEN Respond(r, RegisterResponse(q, 500, "Something went wrong while uploading Avatar"))
    ELSE IF q.coverImage = Missing \/ q.in.username = Missing
    THEN Respond(r, RegisterResponse(q, 500, "TypeError"))
    ELSE /\ Step(r, [q EXCEPT !.pc = "create"])
         /\ resp' = NoResp

\* lines 48-76: findOne resolves; 409 if a user matches, 400 without an
\* avatar file, otherwise the avatar upload is dispatched.
registerUser_findOne(r) ==
    /\ Busy(r) /\ req[r].kind = "register" /\ req[r].pc = "findOne"
    /\ LET q0 == req[r]
           existedUser == findOneMatches(users, q0.in.username, q0.in.email)
           q == [q0 EXCEPT !.held =
                    \E u \in DOMAIN users :
                        \/ q0.in.username # Missing
                           /\ users[u].username = toLowerCase(q0.in.username)
                        \/ q0.in.email # Missing
                           /\ users[u].email = toLowerCase(q0.in.email)]
       IN IF existedUser # {}
          THEN Respond(r, RegisterResponse(q, 409,
                                           "User with email or username already Exists"))
          ELSE IF q.in.avatarFile = Missing
          THEN Respond(r, RegisterResponse(q, 400, "Avatar field is required"))
          ELSE /\ Step(r, [q EXCEPT !.pc = "uploadAvatar"])
               /\ resp' = NoResp
    /\ UNCHANGED <<users, issued, serial, now, subscriptions, videos, rotatedOut, loggedOver>>

\* lines 76-84: the avatar upload resolves (null when it failed); the cover
\* image, if there is one, is uploaded next.
registerUser_uploadAvatar(r) ==
    /\ Busy(r) /\ req[r].kind = "register" /\ req[r].pc = "uploadAvatar"
    /\ LET q0 == req[r]
           up == uploadToCloudinary(q0.in.avatarFile, q0.in.avatarUpload,
                                    <<"u", "r", "l", "1">>, q0.staged)
           q == [q0 EXCEPT !.avatar = up.response,
                           !.staged = up.staged,
                           !.failed = IF q0.in.avatarUpload = "ok"
                                      THEN @ ELSE @ \cup {q0.in.avatarFile},
                           !.coverImage = <<>>]
       IN IF q.in.coverFile # Missing
          THEN /\ Step(r, [q EXCEPT !.pc = "uploadCover"])
               /\ resp' = NoResp
          ELSE registerUser_beforeCreate(r, q)
    /\ UNCHANGED <<users, issued, serial, now, subscriptions, videos, rotatedOut, loggedOver>>

\* lines 82-101: the cover upload resolves (null when it failed).
registerUser_uploadCover(r) ==
    /\ Busy(r) /\ req[r].kind = "register" /\ req[r].pc = "uploadCover"
    /\ LET q0 == req[r]
           up == uploadToCloudinary(q0.in.coverFile, q0.in.coverUpload,
                                    <<"u", "r", "l", "2">>, q0.staged)
           q == [q0 EXCEPT !.coverImage = up.response,
                           !.staged = up.staged,
                           !.failed = IF q0.in.coverUpload = "ok"
                                      THEN @ ELSE @ \cup {q0.in.coverFile}]
       IN registerUser_beforeCreate(r, q)
    /\ UNCHANGED <<users, issued, serial, now, subscriptions, videos, rotatedOut, loggedOver>>

\* variant of registerUser_create: the document is inserted before it is
\* validated, so a registration refused for a missing field leaves a record
registerUser_create_unvalidated(r) ==
    /\ Busy(r) /\ req[r].kind = "register" /\ req[r].pc = "create"
    /\ LET q0 == req[r]
           id == Cardinality(DOMAIN users) + 1
           username == castUsername(toLowerCase(q0.in.username))
           email == castEmail(q0.in.email)
           q == [q0 EXCEPT !.taken =
                    \E u \in DOMAIN users :
                        \/ users[u].username = toLowerCase(q0.in.username)
                        \/ q0.in.email # Missing
                           /\ users[u].email = toLowerCase(trim(q0.in.email))]
           doc == [username |-> username, email |-> email,
                   fullName |-> q.in.fullName,
                   password |-> bcryptHash(q.in.password),
                   avatar |-> q.avatar, coverImage |-> q.coverImage,
                   watchHistory |-> <<>>,
                   refreshToken |-> NoToken]
       IN IF duplicateKey(users, id, username, email)
          THEN /\ Respond(r, RegisterResponse(q, 500, "E11000 duplicate key error"))
               /\ UNCHANGED users
          ELSE IF Missing \in {q.in.fullName, q.in.email, q.in.password}
          THEN /\ Respond(r, RegisterResponse(q, 500, "ValidationError"))
               /\ users' = (id :> doc) @@ users
          ELSE /\ users' = (id :> doc) @@ users
               /\ Step(r, [q EXCEPT !.pc = "respond", !.uid = id])
               /\ resp' = NoResp
    /\ UNCHANGED <<issued, serial, now, subscriptions, videos, rotatedOut, loggedOver>>

\* lines 94-107: User.create resolves.  A missing required field fails
\* validation, a duplicate key is refused by the unique indexes; otherwise the
\* document is inserted with the username lowercased by the controller, the
\* email by the schema, and the password hashed by the pre-save hook.
registerUser_create(r) ==
    /\ Busy(r) /\ req[r].kind = "register" /\ req[r].pc = "create"
    /\ LET q0 == req[r]
           id == Cardinality(DOMAIN users) + 1
           username == castUsername(toLowerCase(q0.in.username))
           email == castEmail(q0.in.email)
           q == [q0 EXCEPT !.taken =
                    \E u \in DOMAIN users :
                        \/ users[u].username = toLowerCase(q0.in.username)
                        \/ q0.in.email # Missing
                           /\ users[u].email = toLowerCase(trim(q0.in.email))]
       IN IF Missing \in {q.in.fullName, q.in.email, q.in.password}
          THEN /\ Respond(r, RegisterResponse(q, 500, "ValidationError"))
               /\ UNCHANGED users
          ELSE IF duplicateKey(users, id, username, email)
          THEN /\ Respond(r, RegisterResponse(q, 500, "E11000 duplicate key error"))
               /\ UNCHANGED users
          ELSE /\ users' = (id :> [username |-> username, email |-> email,
                                   fullName |-> q.in.fullName,
                                   password |-> bcryptHash(q.in.password),
                                   avatar |-> q.avatar, coverImage |-> q.coverImage,
                                   watchHistory |-> <<>>,
                                   refreshToken |-> NoToken]) @@ users
               /\ Step(r, [q EXCEPT !.pc = "respond", !.uid = id])
               /\ resp' = NoResp
    /\ UNCHANGED <<issued, serial, now, subscriptions, videos, rotatedOut, loggedOver>>

\* lines 107-116: the created user is read back without password and
\* refreshToken and returned with status 201.
registerUser_respond(r) ==
    /\ Busy(r) /\ req[r].kind = "register" /\ req[r].pc = "respond"
    /\ LET q == req[r]
       IN IF q.uid \notin DOMAIN users
          THEN Respond(r, RegisterResponse(q, 500,
                                           "Something went wrong while registering User"))
          ELSE Respond(r, [RegisterResponse(q, 201, "") EXCEPT
                              !.user = sanitized(users[q.uid])])
    /\ UNCHANGED <<users, issued, serial, now, subscriptions, videos, rotatedOut, loggedOver>>

\* ------------------------------------------------------------- updateAccountDetails
\* lines 433-453 behind verifyJWT: 400 unless fullName and an email with an
\* "@" are given; otherwise findByIdAndUpdate is dispatched.
updateAccountDetails_start(r, Inputs) ==
    /\ Free(r)
    /\ \E g \in issued, in \in Inputs :
         /\ verifyJWT(generateAccessToken(g.sub, g.ser, g.iat))
         /\ IF ~Truthy(in.fullName) \/ ~Truthy(in.email) \/ ~includes(in.email, "@")
            THEN /\ resp' = [kind |-> "update", status |-> 400, uid |-> g.sub, in |-> in,
                             vanished |-> FALSE,
                             error |-> "Full name and email are required", user |-> Idle]
                 /\ UNCHANGED req
            ELSE /\ Begin(r, [kind |-> "update", pc |-> "update", uid |-> g.sub,
                              in |-> in, tgt |-> {g.sub}, overlap |-> FALSE])
                 /\ resp' = NoResp
    /\ UNCHANGED <<users, issued, serial, now, subscriptions, videos, rotatedOut, loggedOver>>

\* lines 444-462: the update is applied with the email lowercased; 404 if
\* the user is gone; the updated document is returned without its password.
updateAccountDetails_update(r) ==
    /\ Busy(r) /\ req[r].kind = "update" /\ req[r].pc = "update"
    /\ LET q == req[r]
           email == castEmail(toLowerCase(q.in.email))
           response(status, error) ==
               [kind |-> "update", status |-> status, uid |-> q.uid, in |-> q.in,
                vanished |-> q.uid \notin DOMAIN users,
                error |-> error, user |-> Idle]
       IN IF q.uid \notin DOMAIN users
          THEN /\ Respond(r, response(404, "User not found"))
               /\ UNCHANGED users
          ELSE IF duplicateKey(users, q.uid, users[q.uid].username, email)
          THEN /\ Respond(r, response(500, "E11000 duplicate key error"))
               /\ UNCHANGED users
          ELSE /\ users' = [users EXCEPT ![q.uid].fullName = q.in.fullName,
                                         ![q.uid].email = email]
               /\ Respond(r, [response(200, "") EXCEPT
                                 !.user = [f \in (DOMAIN users[q.uid]) \ {"password"} |->
                                              users'[q.uid][f]]])
    /\ UNCHANGED <<issued, serial, now, subscriptions, videos, rotatedOut, loggedOver>>

\* ------------------------------------------------------------- identity specification
\* registrations with every field present, an avatar, with or without a cover
\* image, and uploads that succeed
IdentityRegisterInputs ==
    [fullName : FullNames, username : Usernames, email : Emails, password : {<<"p", "1">>},
     avatarFile : {<<"a">>}, coverFile : {Missing, <<"c">>},
     avatarUpload : {"ok"}, coverUpload : {"ok"}]

IdentityUpdateInputs ==
    [fullName : FullNames, email : Emails \cup {<<"b", "x">>}]

\* one registered user, who logged in at instant 0
InitIdentity ==
    /\ users = (1 :> [NewUser(<<"a", "l">>, <<"a", "@", "x">>, <<"A", "l", " ", "B">>,
                              <<"p", "1">>, <<"u", "r", "l", "1">>, <<>>)
                      EXCEPT !.refreshToken = generateRefreshToken(1, 0, 0)])
    /\ req = [r \in Reqs |-> Idle]
    /\ resp = NoResp
    /\ issued = {FirstGrant}
    /\ serial = 0
    /\ now = 0
    /\ rotatedOut = {}
    /\ loggedOver = {}
    /\ subscriptions = <<>>
    /\ videos = <<>>

NextIdentity ==
    \/ \E r \in Reqs : registerUser_start(r, IdentityRegisterInputs)
    \/ \E r \in Reqs : registerUser_findOne(r)
    \/ \E r \in Reqs : registerUser_uploadAvatar(r)
    \/ \E r \in Reqs : registerUser_uploadCover(r)
    \/ \E r \in Reqs : registerUser_create(r)
    \/ \E r \in Reqs : registerUser_respond(r)
    \/ \E r \in Reqs : updateAccountDetails_start(r, IdentityUpdateInputs)
    \/ \E r \in Reqs : updateAccountDetails_update(r)

SpecIdentity == InitIdentity /\ [][NextIdentity]_vars

\* ------------------------------------------------------------- registration specification
\* registrations of every shape: a field missing or blank, no avatar file, a
\* cover image or none, uploads that succeed or fail at the media host
RegisterInputs ==
    LET ok == [fullName |-> <<"A", "l", " ", "B">>, username |-> <<"b", "o">>,
               email |-> <<"b", "@", "x">>, password |-> <<"p", "1">>,
               avatarFile |-> <<"a">>, coverFile |-> Missing,
               avatarUpload |-> "ok", coverUpload |-> "ok"]
    IN {[ok EXCEPT !.username = n, !.email = e] :
            n \in {<<"b", "o">>, <<"B", "o">>, <<"a", "l">>},
            e \in {<<"b", "@", "x">>, <<" ", "B", "@", "x">>}}
       \cup {[ok EXCEPT ![f] = v] :
                f \in {"fullName", "username", "email", "password"},
                v \in {Missing, <<>>, <<" ">>}}
       \cup {[ok EXCEPT !.avatarFile = Missing, !.username = n] :
                n \in {<<"b", "o">>, <<"a", "l">>}}
       \cup {[ok EXCEPT !.coverFile = <<"c">>, !.coverUpload = c, !.avatarUpload = a] :
                c \in {"ok", "failed"}, a \in {"ok", "failed"}}
       \cup {[ok EXCEPT !.avatarUpload = "failed"]}

NextRegister ==
    \/ \E r \in Reqs : registerUser_start(r, RegisterInputs)
    \/ \E r \in Reqs : registerUser_findOne(r)
    \/ \E r \in Reqs : registerUser_uploadAvatar(r)
    \/ \E r \in Reqs : registerUser_uploadCover(r)
    \/ \E r \in Reqs : registerUser_create(r)
    \/ \E r \in Reqs : registerUser_respond(r)

SpecRegister == InitIdentity /\ [][NextRegister]_vars

\* ------------------------------------------------------------- updateUserAvatar, updateUserCoverImage
\* The two handlers are the same code on two fields (lines 478-509 and
\* 524-555); kind is "avatar" or "coverImage".
ImageInputs == [file : {Missing, <<"f">>}, upload : {"ok", "failed"}]

ImageResponse(q, status, error) ==
    [kind |-> q.kind, status |-> status, error |-> error, uid |-> q.uid,
     vanished |-> q.pc = "update" /\ q.uid \notin DOMAIN users, user |-> Idle,
     staged |-> q.staged, failed |-> q.failed]

\* behind verifyJWT and multer: 400 without a file, otherwise the upload is
\* dispatched.
updateImage_start(r, kind) ==
    /\ Free(r)
    /\ \E g \in issued, in \in ImageInputs :
         /\ verifyJWT(generateAccessToken(g.sub, g.ser, g.iat))
         /\ LET q == [kind |-> kind, pc |-> "upload", uid |-> g.sub, in |-> in,
                      tgt |-> {g.sub}, overlap |-> FALSE, url |-> Missing,
                      staged |-> {in.file} \ {Missing}, failed |-> {}]
            IN IF in.file = Missing
               THEN /\ resp' = ImageResponse(q, 400, "file is missing")
                    /\ UNCHANGED req
               ELSE /\ Begin(r, q)
                    /\ resp' = NoResp
    /\ UNCHANGED <<users, issued, serial, now, subscriptions, videos, rotatedOut, loggedOver>>

\* the upload resolves: reading .url of the null a failed upload returns
\* throws a TypeError; otherwise findByIdAndUpdate is dispatched.
updateImage_upload(r, kind) ==
    /\ Busy(r) /\ req[r].kind = kind /\ req[r].pc = "upload"
    /\ LET q0 == req[r]
           up == uploadToCloudinary(q0.in.file, q0.in.upload, <<"u", "r", "l", "3">>,
                                    q0.staged)
           q == [q0 EXCEPT !.url = up.response,
                           !.staged = up.staged,
                           !.failed = IF q0.in.upload = "ok" THEN @ ELSE @ \cup {q0.in.file}]
       IN IF q.url = Missing
          THEN Respond(r, ImageResponse(q, 500, "TypeError"))
          ELSE /\ Step(r, [q EXCEPT !.pc = "update"])
               /\ resp' = NoResp
    /\ UNCHANGED <<users, issued, serial, now, subscriptions, videos, rotatedOut, loggedOver>>

\* findByIdAndUpdate resolves with the updated document, or with null when no
\* document has the id; either is sent with status 200.
updateImage_update(r, kind) ==
    /\ Busy(r) /\ req[r].kind = kind /\ req[r].pc = "update"
    /\ LET q == req[r]
       IN IF q.uid \notin DOMAIN users
          THEN /\ Respond(r, ImageResponse(q, 200, ""))
               /\ UNCHANGED users
          ELSE /\ users' = [users EXCEPT ![q.uid][kind] = q.url]
               /\ Respond(r, [ImageResponse(q, 200, "") EXCEPT
                                 !.user = [f \in (DOMAIN users[q.uid]) \ {"password"} |->
                                              users'[q.uid][f]]])
    /\ UNCHANGED <<issued, serial, now, subscriptions, videos, rotatedOut, loggedOver>>

updateUserAvatar_start(r) == updateImage_start(r, "avatar")

updateUserAvatar_upload(r) == updateImage_upload(r, "avatar")

updateUserAvatar_update(r) == updateImage_update(r, "avatar")

updateUserCoverImage_start(r) == updateImage_start(r, "coverImage")

updateUserCoverImage_upload(r) == updateImage_upload(r, "coverImage")

updateUserCoverImage_update(r) == updateImage_update(r, "coverImage")

\* ------------------------------------------------------------- profile specification
\* A user document is removed from the collection by another client of the
\* database (no route of this service deletes users); requests of that user
\* that verifyJWT has already let through go on.
deleteUser ==
    /\ \E u \in DOMAIN users :
         users' = [v \in (DOMAIN users) \ {u} |-> users[v]]
    /\ resp' = NoResp
    /\ UNCHANGED <<req, issued, serial, now, subscriptions, videos, rotatedOut, loggedOver>>

ProfileUpdateInputs ==
    [fullName : FullNames \cup {<<>>}, email : {<<"A", "@", "x">>, <<"b", "x">>}]

NextProfile ==
    \/ \E r \in Reqs : updateAccountDetails_start(r, ProfileUpdateInputs)
    \/ \E r \in Reqs : updateAccountDetails_update(r)
    \/ \E r \in Reqs : updateUserAvatar_start(r)
    \/ \E r \in Reqs : updateUserAvatar_upload(r)
    \/ \E r \in Reqs : updateUserAvatar_update(r)
    \/ \E r \in Reqs : updateUserCoverImage_start(r)
    \/ \E r \in Reqs : updateUserCoverImage_upload(r)
    \/ \E r \in Reqs : updateUserCoverImage_update(r)
    \/ deleteUser

SpecProfile == InitIdentity /\ [][NextProfile]_vars

\* ------------------------------------------------------------- changePassword
\* variants of savePassword: the plaintext is persisted as it is (the
\* pre-save hook skipped); the save also drops the refresh token
savePassword_plain(us, uid, newPassword) == [us EXCEPT ![uid].password = newPassword]

savePassword_revoke(us, uid, newPassword) ==
    [us EXCEPT ![uid].password = bcryptHash(newPassword), ![uid].refreshToken = NoToken]

\* user.password = newPassword; user.save({ validateBeforeSave: false }):
\* only the modified path is written, hashed by the pre-save hook.
savePassword(us, uid, newPassword) == [us EXCEPT ![uid].password = bcryptHash(newPassword)]

\* the old password right or wrong, the new one different, or one of them
\* not given
PasswordInputs ==
    {[oldPassword |-> <<"p", "1">>, newPassword |-> <<"p", "2">>],
     [oldPassword |-> <<"p", "2">>, newPassword |-> <<"p", "1">>],
     [oldPassword |-> Missing, newPassword |-> <<"p", "2">>],
     [oldPassword |-> <<"p", "1">>, newPassword |-> <<>>]}

PasswordResponse(q, status, error) ==
    [kind |-> "password", status |-> status, error |-> error, uid |-> q.uid,
     in |-> q.in, loaded |-> q.loaded, hash |-> q.hash,
     hashBefore |-> IF q.uid \in DOMAIN users THEN users[q.uid].password ELSE <<>>]

\* lines 378-387 behind verifyJWT: 400 unless both passwords are given;
\* otherwise findById is dispatched.
changePassword_start(r) ==
    /\ Free(r)
    /\ \E g \in issued, in \in PasswordInputs :
         /\ verifyJWT(generateAccessToken(g.sub, g.ser, g.iat))
         /\ LET q == [kind |-> "password", pc |-> "findById", uid |-> g.sub, in |-> in,
                      tgt |-> {g.sub}, overlap |-> FALSE, loaded |-> FALSE, hash |-> <<>>]
            IN IF ~Truthy(in.oldPassword) \/ ~Truthy(in.newPassword)
               THEN /\ resp' = PasswordResponse(q, 400,
                                    "Old password and new password are required")
                    /\ UNCHANGED req
               ELSE /\ Begin(r, q)
                    /\ resp' = NoResp
    /\ UNCHANGED <<users, issued, serial, now, subscriptions, videos, rotatedOut, loggedOver>>

\* lines 387-390: findById resolves and the loaded document is handed to
\* isPasswordCorrect (a TypeError if the document is null).
changePassword_findById(r) ==
    /\ Busy(r) /\ req[r].kind = "password" /\ req[r].pc = "findById"
    /\ LET q == req[r]
       IN IF q.uid \notin DOMAIN users
          THEN Respond(r, PasswordResponse(q, 500, "TypeError"))
          ELSE /\ Step(r, [q EXCEPT !.pc = "compare", !.loaded = TRUE,
                                    !.hash = users[q.uid].password])
               /\ resp' = NoResp
    /\ UNCHANGED <<users, issued, serial, now, subscriptions, videos, rotatedOut, loggedOver>>

\* lines 390-398: bcrypt.compare resolves; 401 on a wrong old password,
\* otherwise the new password is assigned and save is dispatched.
changePassword_compare(r) ==
    /\ Busy(r) /\ req[r].kind = "password" /\ req[r].pc = "compare"
    /\ LET q == req[r]
       IN IF ~isPasswordCorrect(q.hash, q.in.oldPassword)
          THEN Respond(r, PasswordResponse(q, 401, "Invalid old password!"))
          ELSE /\ Step(r, [q EXCEPT !.pc = "save"])
               /\ resp' = NoResp
    /\ UNCHANGED <<users, issued, serial, now, subscriptions, videos, rotatedOut, loggedOver>>

\* lines 398-402: save resolves (it fails if the document is gone) and the
\* handler answers 200.
changePassword_save(r) ==
    /\ Busy(r) /\ req[r].kind = "password" /\ req[r].pc = "save"
    /\ LET q == req[r]
       IN IF q.uid \notin DOMAIN users
          THEN /\ Respond(r, PasswordResponse(q, 500, "No document found"))
               /\ UNCHANGED users
          ELSE /\ users' = savePassword(users, q.uid, q.in.newPassword)
               /\ Respond(r, PasswordResponse(q, 200, ""))
    /\ UNCHANGED <<issued, serial, now, subscriptions, videos, rotatedOut, loggedOver>>

\* ------------------------------------------------------------- password specification
\* one registered, logged-in user; password changes interleave with logins
NextPassword ==
    \/ \E r \in Reqs : changePassword_start(r)
    \/ \E r \in Reqs : changePassword_findById(r)
    \/ \E r \in Reqs : changePassword_compare(r)
    \/ \E r \in Reqs : changePassword_save(r)
    \/ \E r \in Reqs : loginUser_start(r)
    \/ \E r \in Reqs : loginUser_findOne(r)
    \/ \E r \in Reqs : loginUser_compare(r)
    \/ \E r \in Reqs : loginUser_respond(r)
    \/ \E r \in Reqs : generateAccessAndRefreshToken_findById(r)
    \/ \E r \in Reqs : generateAccessAndRefreshToken_save(r)

SpecPassword == InitIdentity /\ [][NextPassword]_vars

\* password changes interleave with refreshes
NextPasswordRefresh ==
    \/ \E r \in Reqs : changePassword_start(r)
    \/ \E r \in Reqs : changePassword_findById(r)
    \/ \E r \in Reqs : changePassword_compare(r)
    \/ \E r \in Reqs : changePassword_save(r)
    \/ \E r \in Reqs : generateAccessAndRefreshToken_findById(r)
    \/ \E r \in Reqs : generateAccessAndRefreshToken_save(r)
    \/ \E r \in Reqs : refreshAccessToken_start(r)
    \/ \E r \in Reqs : refreshAccessToken_findById(r)

SpecPasswordRefresh == InitIdentity /\ [][NextPasswordRefresh]_vars

\* ------------------------------------------------------------- getUserChannelProfile
\* $lookup from "subscriptions" with localField _id: the rows whose
\* foreignField equals the id.  A row without that field reads as null there,
\* which equals no _id.
lookup(rows, foreignField, id) ==
    {i \in DOMAIN rows : foreignField \in DOMAIN rows[i] /\ rows[i][foreignField] = id}

\* variant of matchUsername: the requested name is matched as it was typed
matchUsername_raw(us, username) == {u \in DOMAIN us : us[u].username = username}

\* stage 1 (lines 584-588): $match on the lowercased name
matchUsername(us, username) ==
    {u \in DOMAIN us : us[u].username = toLowerCase(username)}

\* stage 2 (lines 591-598): the rows in which the user is the channel
subscribersLookup(rows, id) == lookup(rows, "channel", id)

\* variant of subscribedToLookup: the user is looked up as the channel
subscribedToLookup_channel(rows, id) == lookup(rows, "subscribedToChannel", id)

\* stage 3 (lines 601-608): the rows in which the user is the subscriber
subscribedToLookup(rows, id) == lookup(rows, "subscriber", id)

\* stages 4 and 5 (lines 610-642) for the matched user u and the viewer
\* req.user._id
channelProfile(us, rows, u, viewer) ==
    LET subscribers == subscribersLookup(rows, u)
        subscribedTo == subscribedToLookup(rows, u)
    IN [fullName |-> us[u].fullName, username |-> us[u].username,
        subscribersCount |-> Cardinality(subscribers),
        channelsSubscribedToCount |-> Cardinality(subscribedTo),
        isSubscribed |-> viewer \in {rows[i].subscriber : i \in subscribers},
        avatar |-> us[u].avatar, coverImage |-> us[u].coverImage,
        email |-> us[u].email]

ChannelNames == {<<"a", "l">>, <<"B", "o">>, <<"c", "y">>, <<" ">>}

ChannelResponse(q, status, target) ==
    [kind |-> "channel", status |-> status, username |-> q.username,
     viewer |-> q.uid, target |-> target, profile |-> Idle]

\* lines 574-582 behind verifyJWT: 400 for a name that is empty after
\* trimming, otherwise the aggregation is dispatched.
getUserChannelProfile_start(r, Names) ==
    /\ Free(r)
    /\ \E g \in issued, username \in Names :
         /\ verifyJWT(generateAccessToken(g.sub, g.ser, g.iat))
         /\ LET q == [kind |-> "channel", pc |-> "aggregate", uid |-> g.sub,
                      username |-> username, tgt |-> {}, overlap |-> FALSE]
            IN IF username = Missing \/ trim(username) = <<>>
               THEN /\ resp' = ChannelResponse(q, 400, 0)
                    /\ UNCHANGED req
               ELSE /\ Begin(r, q)
                    /\ resp' = NoResp
    /\ UNCHANGED <<users, issued, serial, now, subscriptions, videos, rotatedOut, loggedOver>>

\* lines 582-653: the aggregation resolves; 404 if it is empty, otherwise its
\* first document is sent.
getUserChannelProfile_aggregate(r) ==
    /\ Busy(r) /\ req[r].kind = "channel" /\ req[r].pc = "aggregate"
    /\ LET q == req[r]
           channel == matchUsername(users, q.username)
       IN IF channel = {}
          THEN Respond(r, ChannelResponse(q, 404, 0))
          ELSE \E u \in channel :
                  Respond(r, [ChannelResponse(q, 200, u) EXCEPT
                                !.profile = channelProfile(users, subscriptions, u, q.uid)])
    /\ UNCHANGED <<users, issued, serial, now, subscriptions, videos, rotatedOut, loggedOver>>

\* ------------------------------------------------------------- channel specification
\* Subscription rows are created and removed by other parts of the service
\* (no route of the user controller does): Subscription.create with the two
\* fields of the schema, and the removal of a row.  Nothing keeps a pair
\* from being subscribed twice.
subscribe ==
    /\ Len(subscriptions) < MaxSubs
    /\ \E a \in DOMAIN users :
       \E b \in (DOMAIN users) \ {a} :
         subscriptions' = Append(subscriptions,
                                 [subscriber |-> a, subscribedToChannel |-> b])
    /\ resp' = NoResp
    /\ UNCHANGED <<users, req, issued, serial, now, videos, rotatedOut, loggedOver>>

unsubscribe ==
    /\ \E i \in DOMAIN subscriptions :
         subscriptions' = SubSeq(subscriptions, 1, i - 1)
                          \o SubSeq(subscriptions, i + 1, Len(subscriptions))
    /\ resp' = NoResp
    /\ UNCHANGED <<users, req, issued, serial, now, videos, rotatedOut, loggedOver>>

\* three registered users; the first and the third are logged in
InitChannel ==
    /\ users = (1 :> NewUser(<<"a", "l">>, <<"a", "@", "x">>, <<"A", "l", " ", "B">>,
                             <<"p", "1">>, <<"u", "r", "l", "1">>, <<>>)
                @@ 2 :> NewUser(<<"b", "o">>, <<"b", "@", "x">>, <<"A", "l", " ", "B">>,
                                <<"p", "2">>, <<"u", "r", "l", "1">>, <<"u", "r", "l", "2">>)
                @@ 3 :> NewUser(<<"c", "y">>, <<"c", "@", "x">>, <<"A", "l", " ", "B">>,
                                <<"p", "1">>, <<"u", "r", "l", "1">>, <<>>))
    /\ req = [r \in Reqs |-> Idle]
    /\ resp = NoResp
    /\ issued = {FirstGrant, [sub |-> 3, ser |-> 0, iat |-> 0]}
    /\ serial = 0
    /\ now = 0
    /\ rotatedOut = {}
    /\ loggedOver = {}
    /\ subscriptions = <<>>
    /\ videos = <<>>

NextChannel ==
    \/ \E r \in Reqs : getUserChannelProfile_start(r, ChannelNames)
    \/ \E r \in Reqs : getUserChannelProfile_aggregate(r)
    \/ subscribe
    \/ unsubscribe

SpecChannel == InitChannel /\ [][NextChannel]_vars

\* ------------------------------------------------------------- channel lookup specification
\* users register under names typed in either case, and profiles are
\* requested by names typed in either case, blank, or unknown
LookupRegisterInputs ==
    [fullName : FullNames, username : {<<"B", "o">>, <<"c", "y">>},
     email : {<<"b", "@", "x">>, <<"c", "@", "x">>}, password : {<<"p", "1">>},
     avatarFile : {<<"a">>}, coverFile : {Missing},
     avatarUpload : {"ok"}, coverUpload : {"ok"}]

LookupNames ==
    {<<"A", "l">>, <<"B", "o">>, <<"b", "o">>, <<"c", "y">>, <<" ">>, <<" ", "a", "l">>}

NextChannelLookup ==
    \/ \E r \in Reqs : registerUser_start(r, LookupRegisterInputs)
    \/ \E r \in Reqs : registerUser_findOne(r)
    \/ \E r \in Reqs : registerUser_uploadAvatar(r)
    \/ \E r \in Reqs : registerUser_create(r)
    \/ \E r \in Reqs : registerUser_respond(r)
    \/ \E r \in Reqs : getUserChannelProfile_start(r, LookupNames)
    \/ \E r \in Reqs : getUserChannelProfile_aggregate(r)

SpecChannelLookup == InitIdentity /\ [][NextChannelLookup]_vars

\* ------------------------------------------------------------- getWatchHistory
\* variant of ownerLookup: the nested $project pipeline is left out
ownerLookup_whole(us, owner) ==
    IF owner \in DOMAIN us
    THEN {[f \in (DOMAIN us[owner]) \cup {"_id"} |->
              IF f = "_id" THEN owner ELSE us[owner][f]]}
    ELSE {}

\* lines 691-706: $lookup from "users" on the video's owner, with the
\* pipeline $project { fullName: 1, username: 1, avatar: 1 }.  An inclusion
\* projection keeps _id as well.  The result is an array of zero or one
\* documents.
ownerLookup(us, owner) ==
    IF owner \in DOMAIN us
    THEN {[_id |-> owner, fullName |-> us[owner].fullName,
           username |-> us[owner].username, avatar |-> us[owner].avatar]}
    ELSE {}

\* lines 710-716: $addFields { owner: { $first: "$owner" } }.  $first of an
\* empty array yields no value, and the document is left without the field.
withFirstOwner(video, owners) ==
    IF owners = {}
    THEN [f \in (DOMAIN video) \ {"owner"} |-> video[f]]
    ELSE [video EXCEPT !.owner = CHOOSE o \in owners : TRUE]

\* lines 681-719: $lookup from "videos" of the ids in watchHistory, each
\* matching video passed through the nested pipeline.  A video is joined once
\* however often its id occurs, and an id without a video joins nothing.
watchHistoryLookup(us, vids, history) ==
    {withFirstOwner([_id |-> v, title |-> vids[v].title, owner |-> vids[v].owner],
                    ownerLookup(us, vids[v].owner)) :
        v \in {history[i] : i \in DOMAIN history} \cap DOMAIN vids}

HistoryResponse(q, status) ==
    [kind |-> "history", status |-> status, uid |-> q.uid, videos |-> {}]

\* lines 671-673 behind verifyJWT: the aggregation is dispatched.
getWatchHistory_start(r) ==
    /\ Free(r)
    /\ \E g \in issued :
         /\ verifyJWT(generateAccessToken(g.sub, g.ser, g.iat))
         /\ Begin(r, [kind |-> "history", pc |-> "aggregate", uid |-> g.sub,
                      tgt |-> {g.sub}, overlap |-> FALSE])
    /\ resp' = NoResp
    /\ UNCHANGED <<users, issued, serial, now, subscriptions, videos, rotatedOut, loggedOver>>

\* lines 673-730: the aggregation resolves and user[0].watchHistory is sent
\* (a TypeError if the $match on the user's _id found nobody).
getWatchHistory_aggregate(r) ==
    /\ Busy(r) /\ req[r].kind = "history" /\ req[r].pc = "aggregate"
    /\ LET q == req[r]
       IN IF q.uid \notin DOMAIN users
          THEN Respond(r, HistoryResponse(q, 500))
          ELSE Respond(r, [HistoryResponse(q, 200) EXCEPT
                             !.videos = watchHistoryLookup(users, videos,
                                                           users[q.uid].watchHistory)])
    /\ UNCHANGED <<users, issued, serial, now, subscriptions, videos, rotatedOut, loggedOver>>

\* ------------------------------------------------------------- history specification
\* Videos are watched and deleted by other parts of the service (no route of
\* the user controller does): a video's id is appended to a logged-in user's
\* watchHistory, and a video document is removed while ids of it remain in
\* watch histories.
watchVideo ==
    /\ \E g \in issued, v \in DOMAIN videos :
         /\ g.sub \in DOMAIN users
         /\ Len(users[g.sub].watchHistory) < MaxHistory
         /\ users' = [users EXCEPT ![g.sub].watchHistory = Append(@, v)]
    /\ resp' = NoResp
    /\ UNCHANGED <<req, issued, serial, now, subscriptions, videos, rotatedOut, loggedOver>>

deleteVideo ==
    /\ \E v \in DOMAIN videos :
         videos' = [w \in (DOMAIN videos) \ {v} |-> videos[w]]
    /\ resp' = NoResp
    /\ UNCHANGED <<users, req, issued, serial, now, subscriptions, rotatedOut, loggedOver>>

\* two users, the first logged in, and two videos, one of each owner
InitHistory ==
    /\ users = (1 :> [NewUser(<<"a", "l">>, <<"a", "@", "x">>, <<"A", "l", " ", "B">>,
                              <<"p", "1">>, <<"u", "r", "l", "1">>, <<>>)
                      EXCEPT !.refreshToken = generateRefreshToken(1, 0, 0)]
                @@ 2 :> NewUser(<<"b", "o">>, <<"b", "@", "x">>, <<"A", "l", " ", "B">>,
                                <<"p", "2">>, <<"u", "r", "l", "1">>, <<"u", "r", "l", "2">>))
    /\ req = [r \in Reqs |-> Idle]
    /\ resp = NoResp
    /\ issued = {FirstGrant}
    /\ serial = 0
    /\ now = 0
    /\ rotatedOut = {}
    /\ loggedOver = {}
    /\ subscriptions = <<>>
    /\ videos = (1 :> [owner |-> 2, title |-> <<"t", "1">>]
                 @@ 2 :> [owner |-> 1, title |-> <<"t", "2">>])

NextHistory ==
    \/ \E r \in Reqs : getWatchHistory_start(r)
    \/ \E r \in Reqs : getWatchHistory_aggregate(r)
    \/ watchVideo
    \/ deleteVideo
    \/ deleteUser

SpecHistory == InitHistory /\ [][NextHistory]_vars

\* ------------------------------------------------------------- refresh failure specification
\* one logged-in user; refreshes interleave with logouts, the clock and the
\* removal of the user's document
NextRefreshErrors ==
    \/ \E r \in Reqs : refreshAccessToken_start(r)
    \/ \E r \in Reqs : refreshAccessToken_findById(r)
    \/ \E r \in Reqs : generateAccessAndRefreshToken_findById(r)
    \/ \E r \in Reqs : generateAccessAndRefreshToken_save(r)
    \/ \E r \in Reqs : logoutUser_start(r)
    \/ \E r \in Reqs : logoutUser_update(r)
    \/ deleteUser
    \/ Tick

SpecRefreshErrors == InitIdentity /\ [][NextRefreshErrors]_vars

\* ------------------------------------------------------------- logout race specification
\* one logged-in user whose refreshes and logouts interleave; nobody logs in
NextLogoutRace ==
    \/ \E r \in Reqs : refreshAccessToken_start(r)
    \/ \E r \in Reqs : refreshAccessToken_findById(r)
    \/ \E r \in Reqs : generateAccessAndRefreshToken_findById(r)
    \/ \E r \in Reqs : generateAccessAndRefreshToken_save(r)
    \/ \E r \in Reqs : logoutUser_start(r)
    \/ \E r \in Reqs : logoutUser_update(r)

SpecLogoutRace == InitIdentity /\ [][NextLogoutRace]_vars

\* ------------------------------------------------------------- credentials specification
\* one logged-in user; logins, refreshes and password changes interleave, and
\* the user's document may be removed under them
NextCredentials ==
    \/ \E r \in Reqs : loginUser_start(r)
    \/ \E r \in Reqs : loginUser_findOne(r)
    \/ \E r \in Reqs : loginUser_compare(r)
    \/ \E r \in Reqs : loginUser_respond(r)
    \/ \E r \in Reqs : generateAccessAndRefreshToken_findById(r)
    \/ \E r \in Reqs : generateAccessAndRefreshToken_save(r)
    \/ \E r \in Reqs : refreshAccessToken_start(r)
    \/ \E r \in Reqs : refreshAccessToken_findById(r)
    \/ \E r \in Reqs : changePassword_start(r)
    \/ \E r \in Reqs : changePassword_findById(r)
    \/ \E r \in Reqs : changePassword_compare(r)
    \/ \E r \in Reqs : changePassword_save(r)
    \/ deleteUser

SpecCredentials == InitIdentity /\ [][NextCredentials]_vars

\* ------------------------------------------------------------- upload specification
\* registrations and image updates whose uploads succeed or fail
UploadRegisterInputs ==
    [fullName : {<<"A", "l", " ", "B">>}, username : {<<"b", "o">>},
     email : {<<"b", "@", "x">>}, password : {<<"p", "1">>},
     avatarFile : {<<"a">>}, coverFile : {Missing, <<"c">>},
     avatarUpload : {"ok", "failed"}, coverUpload : {"ok", "failed"}]

NextUpload ==
    \/ \E r \in Reqs : registerUser_start(r, UploadRegisterInputs)
    \/ \E r \in Reqs : registerUser_findOne(r)
    \/ \E r \in Reqs : registerUser_uploadAvatar(r)
    \/ \E r \in Reqs : registerUser_uploadCover(r)
    \/ \E r \in Reqs : registerUser_create(r)
    \/ \E r \in Reqs : registerUser_respond(r)
    \/ \E r \in Reqs : updateUserAvatar_start(r)
    \/ \E r \in Reqs : updateUserAvatar_upload(r)
    \/ \E r \in Reqs : updateUserAvatar_update(r)
    \/ \E r \in Reqs : updateUserCoverImage_start(r)
    \/ \E r \in Reqs : updateUserCoverImage_upload(r)
    \/ \E r \in Reqs : updateUserCoverImage_update(r)

SpecUpload == InitIdentity /\ [][NextUpload]_vars

\* ------------------------------------------------------------- asyncHandler
Undefined == "undefined"

\* asyncHandler.js lines 1-5: the body is a block that evaluates an arrow
\* function expression and returns nothing, so the call yields undefined
asyncHandler(requestHandler) == Undefined

\* the arrow the body builds and drops (lines 2-4): Promise.resolve(req, res,
\* next) is a promise fulfilled with req, it never rejects, so the catch never
\* calls next; requestHandler is never called, whatever it would have done
asyncHandler_inner(requestHandler, outcome) ==
    [invoked |-> FALSE, forwarded |-> FALSE, status |-> 0]

\* the controllers the controller module wraps, and what each would do if it
\* were called: answer 200, or throw ApiError(status)
WrappedControllers == {"registerUser", "loginUser", "refreshAccessToken", "changePassword"}
WrappedOutcomes == {200, 400, 401, 500}

\* a request reaches a route whose last middleware is asyncHandler(handler)
asyncHandler_route(r) ==
    /\ Free(r)
    /\ \E h \in WrappedControllers, o \in WrappedOutcomes :
          Begin(r, [kind |-> "wrapped", pc |-> "call", tgt |-> {}, overlap |-> FALSE,
                    handler |-> h, outcome |-> o])
    /\ resp' = NoResp
    /\ UNCHANGED <<users, issued, serial, now, subscriptions, videos, rotatedOut, loggedOver>>

\* the route runs what asyncHandler returned: there is no function to run, and
\* the arrow that was dropped would not have called the handler either
asyncHandler_call(r) ==
    /\ Busy(r) /\ req[r].kind = "wrapped" /\ req[r].pc = "call"
    /\ LET q == req[r]
           middleware == asyncHandler(q.handler)
           ran == IF middleware = Undefined
                  THEN [invoked |-> FALSE, forwarded |-> FALSE, status |-> 0]
                  ELSE asyncHandler_inner(q.handler, q.outcome)
       IN  Respond(r, [kind |-> "wrapped", handler |-> q.handler, outcome |-> q.outcome,
                       middleware |-> middleware, invoked |-> ran.invoked,
                       forwarded |-> ran.forwarded, status |-> ran.status])
    /\ UNCHANGED <<users, issued, serial, now, subscriptions, videos, rotatedOut, loggedOver>>

NextAsyncHandler ==
    \/ \E r \in Reqs : asyncHandler_route(r)
    \/ \E r \in Reqs : asyncHandler_call(r)

SpecAsyncHandler == InitIdentity /\ [][NextAsyncHandler]_vars

\* ------------------------------------------------------------- user router
\* the routes of the user router in the order they are declared: the
\* middlewares in front of the controller, and the controller
Route(middlewares, controller) == [middlewares |-> middlewares, controller |-> controller]

Router ==
    ("/register" :> Route(<<"upload">>, "registerUser"))
    @@ ("/login" :> Route(<<>>, "loginUser"))
    @@ ("/logout" :> Route(<<"verifyJWT">>, "logoutUser"))
    @@ ("/refresh-token" :> Route(<<>>, "refreshAccessToken"))
    @@ ("/change-password" :> Route(<<"verifyJWT">>, "changePassword"))
    @@ ("/current-user" :> Route(<<"verifyJWT">>, "getCurrentUser"))
    @@ ("/update-account" :> Route(<<"verifyJWT">>, "updateAccountDetails"))
    @@ ("/avatar" :> Route(<<"verifyJWT", "upload">>, "updateUserAvatar"))
    @@ ("/cover-image" :> Route(<<"verifyJWT", "upload">>, "updateUserCoverImage"))
    @@ ("/watch-history" :> Route(<<"verifyJWT">>, "getWatchHistory"))
    @@ ("/c/:username" :> Route(<<"verifyJWT">>, "getUserChannelProfile"))

\* the routes declared after /login
AfterLogin == (DOMAIN Router) \ {"/register", "/login"}

\* what a client can send as its access token: nothing, an access token it
\* received, that token with a broken signature, or a refresh token
AccessInputs ==
    {NoToken}
    \cup {generateAccessToken(g.sub, g.ser, g.iat) : g \in issued}
    \cup {Forged(generateAccessToken(g.sub, g.ser, g.iat)) : g \in issued}
    \cup {generateRefreshToken(g.sub, g.ser, g.iat) : g \in issued}

\* variant of middlewaresPass: the verdict of verifyJWT is ignored
middlewaresPass_open(middlewares, tok) == TRUE

\* Express runs the middlewares of a route in order; each calls next() or ends
\* the request.  verifyJWT ends it unless it accepts the token; the upload
\* middleware always goes on.
middlewaresPass(middlewares, tok) ==
    \A i \in DOMAIN middlewares : middlewares[i] = "verifyJWT" => verifyJWT(tok)

\* a request reaches a route: its middlewares run; the request is refused with
\* 401 by verifyJWT, or goes on to the controller.  verified records whether
\* verifyJWT was among the middlewares and accepted the token.
router_arrive(r) ==
    /\ Free(r)
    /\ \E path \in DOMAIN Router, tok \in AccessInputs :
         LET route == Router[path]
             q == [kind |-> "route", pc |-> "controller", tgt |-> {}, overlap |-> FALSE,
                   path |-> path, tok |-> tok,
                   verified |-> /\ \E i \in DOMAIN route.middlewares :
                                       route.middlewares[i] = "verifyJWT"
                                /\ verifyJWT(tok)]
         IN IF middlewaresPass(route.middlewares, tok)
            THEN /\ Begin(r, q)
                 /\ resp' = NoResp
            ELSE /\ resp' = [kind |-> "route", path |-> path, tok |-> tok, status |-> 401,
                             ran |-> "none", verified |-> FALSE]
                 /\ UNCHANGED req
    /\ UNCHANGED <<users, issued, serial, now, subscriptions, videos, rotatedOut, loggedOver>>

\* the controller of the route is entered
router_controller(r) ==
    /\ Busy(r) /\ req[r].kind = "route" /\ req[r].pc = "controller"
    /\ LET q == req[r]
       IN Respond(r, [kind |-> "route", path |-> q.path, tok |-> q.tok, status |-> 0,
                      ran |-> Router[q.path].controller, verified |-> q.verified])
    /\ UNCHANGED <<users, issued, serial, now, subscriptions, videos, rotatedOut, loggedOver>>

NextRouter ==
    \/ \E r \in Reqs : router_arrive(r)
    \/ \E r \in Reqs : router_controller(r)

SpecRouter == InitIdentity /\ [][NextRouter]_vars

\* ============================================================= claims
\* every refresh token a client could present: any subject, serial and
\* signing instant, with a good or a broken signature
TokenUniverse ==
    LET good == {generateRefreshToken(u, n, t) : u \in Ids, n \in 0..serial, t \in 0..MaxTime}
    IN good \cup {Forged(tk) : tk \in good}

\* refresh would accept the token in the current state
WouldAccept(tok) ==
    jwtVerify(tok, "refresh", now) = "ok" /\ refreshCheck(users, tok) = "ok"

StoredToken(u) == IF u \in DOMAIN users THEN users[u].refreshToken ELSE NoToken

\* C1: when a login of user u succeeds and no other request for u was in
\* flight during it, the stored refresh token of u is the one in the response;
\* when a logout of u completes, u has no stored refresh token.
C1_LoginStoresLogoutClears ==
    /\ (resp.kind = "login" /\ resp.status = 200 /\ ~resp.overlap)
          => /\ resp.refreshToken # NoToken
             /\ StoredToken(resp.uid) = resp.refreshToken
    /\ (resp.kind = "logout" /\ resp.status = 200)
          => StoredToken(resp.uid) = NoToken

C1_Witness ==
    /\ resp.kind = "login" /\ resp.status = 200 /\ ~resp.overlap
    /\ resp.refreshToken \notin {NoToken, generateRefreshToken(1, 0, 0)}

\* C2 (as claimed): a refresh whose token verifies but differs from the token
\* stored for its subject answers 401 and leaves the stored token unchanged.
RefreshMismatch ==
    /\ resp.kind = "refresh" /\ resp.verified /\ ~resp.passed
    /\ resp.tok.sub \in DOMAIN users
    /\ resp.storedBefore # resp.tok

C2_MismatchIs401 ==
    RefreshMismatch => /\ resp.status = 401
                       /\ StoredToken(resp.tok.sub) = resp.storedBefore

\* C3: a successful refresh leaves the newly issued token stored, and a
\* refresh that looks up the stored token after its own token was rotated out
\* by a refresh never succeeds; a rotated-out token is never stored again.
C3_RotationInvalidatesOld ==
    /\ (resp.kind = "refresh" /\ resp.status = 200)
          => /\ StoredToken(resp.tok.sub) = resp.refreshToken
             /\ resp.refreshToken # resp.tok
    /\ (resp.kind = "refresh" /\ resp.staleRot) => resp.status # 200
    /\ \A t \in rotatedOut : \A u \in DOMAIN users : users[u].refreshToken # t

C3_Witness ==
    /\ resp.kind = "refresh" /\ resp.verified /\ resp.staleRot
    /\ resp.status # 200

\* C4: in every state, for every user, at most one token of the universe
\* would be accepted by refresh, and it is the stored one.
C4_AtMostOneAccepted ==
    \A u \in DOMAIN users :
        LET accepted == {t \in TokenUniverse : t.sub = u /\ WouldAccept(t)}
        IN /\ Cardinality(accepted) <= 1
           /\ accepted \subseteq {users[u].refreshToken}

C4_Witness ==
    \E u \in DOMAIN users :
        /\ Cardinality({g \in issued : g.sub = u}) >= 2
        /\ Cardinality({t \in TokenUniverse : t.sub = u /\ WouldAccept(t)}) = 1
        /\ \E r \in Reqs : Busy(r)

\* C5: logout leaves no stored token whether or not one was stored, a second
\* logout changes nothing, and a refresh that looks up the stored token while
\* it is absent fails.
C5_LogoutIdempotent ==
    /\ \A u \in DOMAIN users :
          /\ unsetRefreshToken(users, u)[u].refreshToken = NoToken
          /\ unsetRefreshToken(unsetRefreshToken(users, u), u) = unsetRefreshToken(users, u)
    /\ (resp.kind = "logout") => StoredToken(resp.uid) = NoToken
    /\ (resp.kind = "refresh" /\ resp.absent) => resp.status # 200

C5_Witness ==
    /\ resp.kind = "logout" /\ resp.status = 200
    /\ resp.before = NoToken

\* C6: once a login has overwritten the stored refresh token, a refresh that
\* looks up the stored token afterwards with the overwritten token never
\* succeeds, and the overwritten token is never stored again.
C6_LoginInvalidatesEarlier ==
    /\ (resp.kind = "refresh" /\ resp.staleLogin) => resp.status # 200
    /\ \A t \in loggedOver : \A u \in DOMAIN users : users[u].refreshToken # t

C6_Witness ==
    /\ resp.kind = "refresh" /\ resp.verified /\ resp.staleLogin
    /\ resp.status # 200

\* C7: nothing between the comparison and the save re-checks the stored
\* token: a refresh that passed the comparison succeeds with a new pair
\* whatever happened to the stored token in between.
C7_PassedRefreshSucceeds ==
    (resp.kind = "refresh" /\ resp.passed)
        => /\ resp.status = 200
           /\ resp.refreshToken \notin {NoToken, resp.tok}
           /\ resp.accessToken # NoToken

\* two refreshes presented the same token; the other one has already rotated
\* it out, and this one succeeds all the same
C7_Witness ==
    /\ resp.kind = "refresh" /\ resp.status = 200
    /\ resp.lateWin
    /\ resp.refreshToken # resp.tok

\* C8: a login answers 404 exactly when an identifier was supplied and no
\* user has it, 401 exactly when a user was found and the password does not
\* hash to the stored digest; neither response carries or signs tokens.
NoUserHas(in) ==
    \A u \in DOMAIN users :
        /\ users[u].username # in.username
        /\ in.email = Missing \/ users[u].email # toLowerCase(in.email)

C8_LoginFailures ==
    resp.kind = "login" =>
        /\ (resp.status = 404) <=>
              (~resp.found /\ (Truthy(resp.in.username) \/ Truthy(resp.in.email)))
        /\ (resp.status = 404) => NoUserHas(resp.in)
        /\ (~resp.found /\ resp.status # 404) => resp.status = 400
        /\ (resp.status = 401) <=> (resp.found /\ ~resp.pwValid)
        /\ (resp.status = 401) => resp.hash # bcryptHash(resp.in.password)
        /\ (resp.found /\ resp.pwValid) => resp.status \in {200, 500}
        /\ resp.status \in {400, 401, 404}
              => /\ ~resp.signed
                 /\ resp.accessToken = NoToken /\ resp.refreshToken = NoToken

C8_Witness ==
    /\ resp.kind = "login" /\ resp.status = 401
    /\ resp.found /\ resp.uid = 1

\* C9 (as claimed): a registration whose username or email, lowercased, is
\* already held by a user when the existence check runs answers 409.
C9_HeldIdentityIs409 ==
    (resp.kind = "register" /\ resp.held) => resp.status = 409

\* C10: no two user documents have the same username, and no two the same
\* email, whatever registrations and account updates interleave.
C10_UniqueIdentity ==
    \A u1, u2 \in DOMAIN users :
        u1 # u2 => /\ users[u1].username # users[u2].username
                   /\ users[u1].email # users[u2].email

\* a registration passed the existence check and was then refused by the
\* index, because a concurrent request had taken the identity in between
C10_Witness ==
    /\ resp.kind = "register" /\ ~resp.held
    /\ resp.error = "E11000 duplicate key error"
    /\ Cardinality(DOMAIN users) >= 2

\* C11: a registration with every required field present and not blank, an
\* avatar file, uploads that the media host accepts, and a username and email
\* that no user holds (lowercased, when the existence check runs and when the
\* document is inserted) answers 201, and the user in the response has
\* neither the password hash nor the refresh token.
ValidRegistration(in) ==
    /\ \A f \in {in.fullName, in.username, in.email, in.password} :
          f # Missing /\ trim(f) # <<>>
    /\ in.avatarFile # Missing
    /\ in.avatarUpload = "ok"
    /\ in.coverFile # Missing => in.coverUpload = "ok"

C11_RegisterSucceedsSanitized ==
    resp.kind = "register" =>
        /\ (ValidRegistration(resp.in) /\ ~resp.held /\ ~resp.taken)
              => /\ resp.status = 201
                 /\ resp.uid \in DOMAIN users
                 /\ users[resp.uid].password = bcryptHash(resp.in.password)
        /\ resp.status = 201
              => /\ "password" \notin DOMAIN resp.user
                 /\ "refreshToken" \notin DOMAIN resp.user
                 /\ \A f \in DOMAIN resp.user : resp.user[f] = users[resp.uid][f]
                 /\ resp.user.username = toLowerCase(resp.in.username)

C11_Witness ==
    /\ resp.kind = "register" /\ resp.status = 201
    /\ ValidRegistration(resp.in)
    /\ resp.in.username = <<"B", "o">>
    /\ resp.user.username = <<"b", "o">>
    /\ Cardinality(DOMAIN users) = 2

\* C12 (as claimed): a registration in which fullName, username, email or
\* password is missing or blank after trimming answers 400; so does one
\* without an avatar file (unless it was refused before as a duplicate); a
\* registration without a cover image that succeeds stores an empty
\* coverImage URL.
MissingOrBlank(in) ==
    \E f \in {in.fullName, in.username, in.email, in.password} :
        f = Missing \/ trim(f) = <<>>

C12_MissingOrBlankIs400 ==
    resp.kind = "register" =>
        /\ MissingOrBlank(resp.in) => resp.status = 400
        /\ (resp.in.avatarFile = Missing /\ resp.status # 409) => resp.status = 400
        /\ (resp.status = 201 /\ resp.in.coverFile = Missing)
              => users[resp.uid].coverImage = <<>>

\* C13: when changePassword answers 200 the stored hash verifies the new
\* password and no longer the old one; it answers 401 exactly when the old
\* password does not verify against the hash it loaded, and then the stored
\* hash is left as it was.  A login answers 401 only if the password it
\* presented does not verify against the hash it loaded.
StoredPassword(u) == IF u \in DOMAIN users THEN users[u].password ELSE <<>>

C13_PasswordChange ==
    /\ resp.kind = "password" =>
          /\ resp.status = 200
                => /\ isPasswordCorrect(StoredPassword(resp.uid), resp.in.newPassword)
                   /\ resp.in.oldPassword # resp.in.newPassword
                         => ~isPasswordCorrect(StoredPassword(resp.uid),
                                               resp.in.oldPassword)
          /\ (resp.status = 401)
                <=> (resp.loaded /\ ~isPasswordCorrect(resp.hash, resp.in.oldPassword))
          /\ resp.status = 401 => StoredPassword(resp.uid) = resp.hashBefore
          /\ (resp.loaded /\ isPasswordCorrect(resp.hash, resp.in.oldPassword))
                => resp.status = 200
    /\ (resp.kind = "login" /\ resp.status = 401)
          => ~isPasswordCorrect(resp.hash, resp.in.password)
    /\ (resp.kind = "login" /\ resp.pwValid) => resp.status = 200

\* after a change from p1 to p2, a login with the old password is refused
C13_Witness ==
    /\ resp.kind = "login" /\ resp.status = 401
    /\ resp.in.password = <<"p", "1">>
    /\ resp.hash = bcryptHash(<<"p", "2">>)
    /\ StoredPassword(1) = bcryptHash(<<"p", "2">>)

\* C14: the step that completes a changePassword leaves every user's stored
\* refresh token as it was, and every refresh token that refresh would
\* accept before the step is one it would accept after it.
C14_PasswordChangeKeepsToken ==
    [][resp'.kind = "password"
          => /\ \A u \in DOMAIN users :
                   /\ u \in DOMAIN users'
                   /\ users'[u].refreshToken = users[u].refreshToken
             /\ \A tok \in TokenUniverse : WouldAccept(tok) => WouldAccept(tok)']_vars

\* a refresh succeeds with the token of the first login after the password
\* was changed
C14_Witness ==
    /\ resp.kind = "refresh" /\ resp.status = 200
    /\ resp.tok = generateRefreshToken(1, 0, 0)
    /\ StoredPassword(1) = bcryptHash(<<"p", "2">>)

\* C15 (as claimed): an updateAccountDetails, updateUserAvatar or
\* updateUserCoverImage whose update finds the user's document gone answers
\* 404.
C15_VanishedIs404 ==
    (resp.kind \in {"update", "avatar", "coverImage"} /\ resp.vanished)
        => resp.status = 404

\* C16 (as claimed): a channel profile's subscribersCount is the number of
\* Subscription rows whose subscribedToChannel is the profiled user, and its
\* isSubscribed is true exactly when a row (subscriber = viewer,
\* subscribedToChannel = profiled user) exists.
RowsWhere(field, id) == {i \in DOMAIN subscriptions : subscriptions[i][field] = id}

C16_SubscribersCounted ==
    (resp.kind = "channel" /\ resp.status = 200)
        => /\ resp.profile.subscribersCount
                 = Cardinality(RowsWhere("subscribedToChannel", resp.target))
           /\ resp.profile.isSubscribed
                 <=> \E i \in DOMAIN subscriptions :
                        /\ subscriptions[i].subscriber = resp.viewer
                        /\ subscriptions[i].subscribedToChannel = resp.target

SameNameAnyCase(a, b) == toLowerCase(a) = toLowerCase(b)

C18_ProfileLookup ==
    resp.kind = "channel" =>
        /\ resp.status \in {200, 400, 404}
        /\ (resp.status = 400) <=> (trim(resp.username) = <<>>)
        /\ (resp.status = 404)
              <=> /\ trim(resp.username) # <<>>
                  /\ \A u \in DOMAIN users :
                        ~SameNameAnyCase(users[u].username, resp.username)
        /\ resp.status = 200
              => /\ resp.target \in DOMAIN users
                 /\ SameNameAnyCase(users[resp.target].username, resp.username)
                 /\ resp.profile.username = users[resp.target].username

\* a user registered in this behaviour, stored as "bo", is found under "Bo"
C18_Witness ==
    /\ resp.kind = "channel" /\ resp.status = 200
    /\ resp.username = <<"B", "o">>
    /\ resp.target # 1
    /\ resp.profile.username = <<"b", "o">>

\* C19 (as claimed): the videos of a watch-history response are exactly the
\* videos referenced by the user's watchHistory that still exist, and each
\* has an owner object holding only the owner's fullName, username and
\* avatar.
ReferencedAndExisting(u) ==
    {users[u].watchHistory[i] : i \in DOMAIN users[u].watchHistory} \cap DOMAIN videos

HistoryIsExact ==
    /\ resp.uid \in DOMAIN users
    /\ {d._id : d \in resp.videos} = ReferencedAndExisting(resp.uid)
    /\ Cardinality(resp.videos) = Cardinality(ReferencedAndExisting(resp.uid))
    /\ \A d \in resp.videos : d.title = videos[d._id].title

C20_NoTokenIs401 ==
    [][(resp'.kind = "refresh" /\ resp'.tok = NoToken)
          => /\ resp'.status = 401 /\ resp'.thrown = 401
             /\ ~resp'.verified /\ ~resp'.passed
             /\ UNCHANGED <<users, req, issued, serial, now, rotatedOut, loggedOver,
                            subscriptions, videos>>]_vars

C20_Witness ==
    /\ resp.kind = "refresh" /\ resp.tok = NoToken
    /\ resp.status = 401
    /\ incomingRefreshToken(NoToken, NoToken) = NoToken
    /\ \E r \in Reqs : Busy(r)

\* C21: a refresh that carried a token and did not succeed answers 500, never
\* the 401 that was thrown, and its message is the one of the error raised:
\* jwt.verify's for a bad signature or an expired token, "User not found"
\* for an unknown subject, "Refresh token is expired or invalid" for a
\* mismatch, and the token helper's for a failure to issue the tokens.
C21_RefreshFailuresAre500 ==
    (resp.kind = "refresh" /\ resp.tok # NoToken /\ resp.status # 200)
        => /\ resp.status = 500
           /\ resp.status # resp.thrown \/ resp.thrown = 500
           /\ ~resp.verified
                 => /\ jwtVerify(resp.tok, "refresh", now) # "ok"
                    /\ resp.message = jwtVerify(resp.tok, "refresh", now)
           /\ (resp.verified /\ ~resp.passed)
                 => /\ resp.thrown = 401
                    /\ resp.message = IF resp.tok.sub \in DOMAIN users
                                      THEN "Refresh token is expired or invalid"
                                      ELSE "User not found"
           /\ resp.passed
                 => /\ resp.tok.sub \notin DOMAIN users
                    /\ resp.message \in {"User not found", "No document found"}

\* the user's document vanished after the comparison: the token helper fails
C21_Witness ==
    /\ resp.kind = "refresh" /\ resp.passed
    /\ resp.status = 500
    /\ resp.message = "User not found"

\* C22: a request to a route wrapped by asyncHandler has its handler invoked,
\* and an ApiError the handler throws is forwarded to next and reaches the
\* caller with its status.
C22_HandlerInvokedErrorsForwarded ==
    resp.kind = "wrapped"
        => /\ resp.middleware # Undefined
           /\ resp.invoked
           /\ resp.outcome # 200 => resp.forwarded /\ resp.status = resp.outcome

\* C23: a registration, avatar update or cover-image update in which an upload
\* failed answers 500, and none of the files whose upload failed is still
\* staged on disk.
C23_FailedUploadUnstagedAnd500 ==
    (resp.kind \in {"register", "avatar", "coverImage"} /\ resp.failed # {})
        => /\ resp.status = 500
           /\ resp.failed \cap resp.staged = {}

\* a registration whose avatar upload succeeded and whose cover upload failed
C23_Witness ==
    /\ resp.kind = "register"
    /\ resp.failed = {<<"c">>}
    /\ resp.status = 500
    /\ resp.staged = {<<"a">>}

\* C24: nobody logs in; once a logout of the user has completed and every
\* request has finished, the user has no stored refresh token.  The stored
\* token is present at the start and only a logout removes it, so a logout has
\* completed when the last step was one, or was a refresh that found the stored
\* token absent.
C24_LogoutLeavesNoToken ==
    LET logoutCompleted ==
            \/ resp.kind = "logout"
            \/ resp.kind = "refresh" /\ resp.tok # NoToken /\ resp.storedBefore = NoToken
        u == IF resp.kind = "logout" THEN resp.uid ELSE resp.tok.sub
    IN  (logoutCompleted /\ \A r \in Reqs : ~Busy(r)) => StoredToken(u) = NoToken

\* C25: the user object an updateAccountDetails, updateUserAvatar or
\* updateUserCoverImage returns holds neither the password hash nor the stored
\* refresh token.
C25_UpdateResponsesSanitized ==
    (resp.kind \in {"update", "avatar", "coverImage"} /\ resp.status = 200
     /\ resp.user # Idle)
        => /\ "password" \notin DOMAIN resp.user
           /\ \/ "refreshToken" \notin DOMAIN resp.user
              \/ resp.user.refreshToken = NoToken

\* C26: a step that ends a login, refresh or changePassword with a failure
\* writes nothing to the users, and the request it ends had not written
\* before: the only stretch of these handlers that follows a write is the end
\* of a login (pc "respond"), which does not fail.
C26_FailureWritesNothing ==
    [][(resp'.kind \in {"login", "refresh", "password"} /\ resp'.status # 200)
          => /\ users' = users
             /\ \A r \in Reqs :
                   (Busy(r) /\ req'[r] = Idle) => req[r].pc # "respond"]_vars

\* a refresh refused for a mismatch while the user holds a stored token and a
\* password hash
C26_Witness ==
    /\ resp.kind = "refresh" /\ resp.status = 500
    /\ resp.verified /\ ~resp.passed
    /\ StoredToken(1) # NoToken
    /\ StoredToken(1) # resp.tok
    /\ StoredToken(1) = resp.storedBefore

\* C27: a step that ends a registration with a failure leaves the set of user
\* records as it was, and the registration it ends had not inserted its
\* record (it was not past User.create).
C27_FailedRegisterCreatesNothing ==
    [][(resp'.kind = "register" /\ resp'.status # 201)
          => /\ users' = users
             /\ resp'.uid = 0
             /\ \A r \in Reqs :
                   (Busy(r) /\ req'[r] = Idle) => req[r].pc # "respond"]_vars

\* a registration that User.create refuses for a missing fullName
C27_Witness ==
    /\ resp.kind = "register" /\ resp.status = 500
    /\ resp.error = "ValidationError"
    /\ resp.in.fullName = Missing
    /\ Cardinality(DOMAIN users) = 1

\* C28: the step in which a login or a refresh persists its new refresh token
\* leaves every user's stored password hash as it was, so every password
\* that verified before the step verifies after it.
C28_TokenSaveKeepsPassword ==
    [][(\E r \in Reqs : Busy(r) /\ req[r].pc = "gen_save" /\ req'[r] # req[r])
          => \A u \in DOMAIN users :
                /\ u \in DOMAIN users'
                /\ users'[u].password = users[u].password
                /\ \A p \in Passwords :
                      isPasswordCorrect(users[u].password, p)
                          => isPasswordCorrect(users'[u].password, p)]_vars

\* a login succeeds after the password was changed: its token was persisted
\* and the changed password verifies
C28_Witness ==
    /\ resp.kind = "login" /\ resp.status = 200
    /\ StoredToken(1) = resp.refreshToken
    /\ StoredToken(1) # generateRefreshToken(1, 0, 0)
    /\ isPasswordCorrect(StoredPassword(1), <<"p", "2">>)

====
